---------------------------- MODULE Spec2Model ----------------------------
(***************************************************************************)
(* recoup: allocation of shared IT costs.  Bills are split over Cost rows  *)
(* by percentage; save hooks keep the derived figures up to date.          *)
(*                                                                         *)
(* Units.  A stored money amount (DecimalField, 2 decimal places) is an    *)
(* integer number of cents.  A percentage (DecimalField, 2 decimal places) *)
(* is an integer number of hundredths of a percent, so 100% is 10000.  An  *)
(* unrounded product "amount * percentage / 100" is an integer number of   *)
(* 1/10000 cent (Micro).  All amounts of the model are non-negative.       *)
(***************************************************************************)
EXTENDS Integers, Sequences, FiniteSets, TLC

(***************************************************************************)
(* decimal.Decimal under Python's default context: 28 significant digits,  *)
(* ROUND_HALF_EVEN.  A coefficient is a sequence of digits, most           *)
(* significant first, so that 28-digit numbers stay exact.                 *)
(***************************************************************************)
Prec == 28

Max(a, b) == IF a >= b THEN a ELSE b

Min(a, b) == IF a <= b THEN a ELSE b

RECURSIVE NatDigits(_)
NatDigits(n) == IF n < 10 THEN <<n>> ELSE Append(NatDigits(n \div 10), n % 10)

RECURSIVE DigitsNat(_)
DigitsNat(ds) ==
  IF ds = <<>> THEN 0
  ELSE 10 * DigitsNat(SubSeq(ds, 1, Len(ds) - 1)) + ds[Len(ds)]

RECURSIVE StripZeros(_)
StripZeros(ds) ==
  IF Len(ds) > 1 /\ ds[1] = 0 THEN StripZeros(Tail(ds)) ELSE ds

Zeros(k) == [i \in 1..k |-> 0]

AllZero(ds) == \A i \in 1..Len(ds) : ds[i] = 0

\* coefficient + 1
RECURSIVE IncDigits(_)
IncDigits(ds) ==
  IF ds = <<>> THEN <<1>>
  ELSE IF ds[Len(ds)] < 9
       THEN [ds EXCEPT ![Len(ds)] = ds[Len(ds)] + 1]
       ELSE Append(IncDigits(SubSeq(ds, 1, Len(ds) - 1)), 0)

\* coefficient * n for a small natural n, schoolbook from the last digit
RECURSIVE MulCarry(_, _, _)
MulCarry(ds, n, carry) ==
  IF ds = <<>> THEN (IF carry = 0 THEN <<>> ELSE NatDigits(carry))
  ELSE LET p == ds[Len(ds)] * n + carry
       IN Append(MulCarry(SubSeq(ds, 1, Len(ds) - 1), n, p \div 10), p % 10)

MulDigits(ds, n) == StripZeros(MulCarry(ds, n, 0))

\* coefficient / 10^k rounded half-even to an integer coefficient
RoundDrop(ds, k) ==
  IF k <= 0 THEN ds
  ELSE LET padded  == Zeros(Max(0, k - Len(ds))) \o ds
           keepLen == Len(padded) - k
           kept    == SubSeq(padded, 1, keepLen)
           dropped == SubSeq(padded, keepLen + 1, Len(padded))
           rest    == Tail(dropped)
           lastOdd == keepLen > 0 /\ kept[keepLen] % 2 = 1
           up      == \/ dropped[1] > 5
                      \/ dropped[1] = 5 /\ ~AllZero(rest)
                      \/ dropped[1] = 5 /\ AllZero(rest) /\ lastOdd
           base    == IF keepLen = 0 THEN <<0>> ELSE kept
       IN StripZeros(IF up THEN IncDigits(base) ELSE base)

\* Decimal._fix: at most Prec significant digits
Fix(d) ==
  IF Len(d.c) <= Prec THEN d
  ELSE LET r == RoundDrop(d.c, Len(d.c) - Prec)
       IN IF Len(r) > Prec
          THEN [c |-> SubSeq(r, 1, Prec), e |-> d.e + (Len(d.c) - Prec) + 1]
          ELSE [c |-> r, e |-> d.e + (Len(d.c) - Prec)]

Dec(n, e) == [c |-> NatDigits(n), e |-> e]

\* long division: the digits of num/den after the point, until Prec
\* significant digits are there or the division comes out even
RECURSIVE DivSteps(_, _, _, _)
DivSteps(ds, r, den, e) ==
  IF r = 0 \/ (Len(StripZeros(ds)) >= Prec /\ StripZeros(ds) # <<0>>)
  THEN [c |-> StripZeros(ds), r |-> r, e |-> e]
  ELSE DivSteps(Append(ds, (10 * r) \div den), (10 * r) % den, den, e - 1)

\* Decimal(num) / Decimal(den) for naturals num, den with den > 0
DecDiv(num, den) ==
  LET s  == DivSteps(NatDigits(num \div den), num % den, den, 0)
      up == \/ 2 * s.r > den
            \/ 2 * s.r = den /\ s.c[Len(s.c)] % 2 = 1
  IN IF s.r = 0 THEN [c |-> s.c, e |-> s.e]
     ELSE IF up THEN Fix([c |-> IncDigits(s.c), e |-> s.e])
     ELSE [c |-> s.c, e |-> s.e]

\* Decimal * Decimal(n * 10^e) for a small natural n
DecMul(d, n, e) == Fix([c |-> MulDigits(d.c, n), e |-> d.e + e])

\* round(d, places) = d.quantize(10^-places): the integer d * 10^places,
\* rounded half-even
Quantize(d, places) ==
  IF d.e + places >= 0
  THEN DigitsNat(d.c \o Zeros(d.e + places))
  ELSE DigitsNat(RoundDrop(d.c, -(d.e + places)))

\* an integer quotient n/d rounded half-even, for d > 0
RoundHalfEven(n, d) ==
  LET q == n \div d
      r == n % d
  IN IF 2 * r > d \/ (2 * r = d /\ q % 2 = 1) THEN q + 1 ELSE q


(***************************************************************************)
(* The tables.  A table is a function from the primary keys of its rows    *)
(* to the rows; tables whose rows carry no field the hooks or aggregates   *)
(* read (Contract, FinancialYear, ServicePool, ITSystem) are the sets of   *)
(* their primary keys.  Cost is a concrete model with the two child tables *)
(* EndUserCost and ITPlatformCost; a row of cost is the joined row, and    *)
(* its key says which child it is.                                         *)
(***************************************************************************)
ContractIds == {"k1", "k2"}

\* Meta.ordering = ("end",): a smaller key is an earlier end date
FinancialYearIds == {1, 2}

BillIds == {"b1", "b2"}

ServicePoolIds == {"sp1"}

EndUserServiceIds == {"sv1", "sv2"}

PlatformIds == {"pf1", "pf2"}

DivisionIds == {"d1", "d2"}

ITSystemIds == {"s1", "s2"}

EndUserCostIds == {"e1", "e2"}

ITPlatformCostIds == {"p1"}

CostIds == EndUserCostIds \cup ITPlatformCostIds

SystemDependencyIds == {"sd1", "sd2"}

VARIABLES
  contract,          \* Contract rows
  financialyear,     \* FinancialYear rows
  bill,              \* Bill: cost, cost_estimate, active, contract, year
  servicepool,       \* ServicePool rows
  cost,              \* Cost + child: bill, percentage, service_pool, cost,
                     \*   cost_estimate, target (service or platform)
  division,          \* Division: user_count
  enduserservice,    \* EndUserService: divisions (the many-to-many links)
  platform,          \* Platform: system_count, name
  itsystem,          \* ITSystem rows
  systemdependency,  \* SystemDependency: system, platform
  last,              \* the last request: what was asked and how it ended
  ret,               \* the last value a read returned
  txn                \* the saves in progress, statement by statement

tables == <<contract, financialyear, bill, servicepool, cost, division,
            enduserservice, platform, itsystem, systemdependency>>

vars == <<contract, financialyear, bill, servicepool, cost, division,
          enduserservice, platform, itsystem, systemdependency, last, ret, txn>>

DB == [contract |-> contract, financialyear |-> financialyear, bill |-> bill,
       servicepool |-> servicepool, cost |-> cost, division |-> division,
       enduserservice |-> enduserservice, platform |-> platform,
       itsystem |-> itsystem, systemdependency |-> systemdependency]

Stored(db) ==
  /\ contract' = db.contract
  /\ financialyear' = db.financialyear
  /\ bill' = db.bill
  /\ servicepool' = db.servicepool
  /\ cost' = db.cost
  /\ division' = db.division
  /\ enduserservice' = db.enduserservice
  /\ platform' = db.platform
  /\ itsystem' = db.itsystem
  /\ systemdependency' = db.systemdependency

\* INSERT or UPDATE of the row with key pk
Put(table, pk, row) ==
  [x \in DOMAIN table \cup {pk} |-> IF x = pk THEN row ELSE table[x]]

\* DELETE of the row with key pk
Drop(table, pk) == [x \in DOMAIN table \ {pk} |-> table[x]]

Ok(v) == [ok |-> TRUE, value |-> v]

Err(e) == [ok |-> FALSE, error |-> e]

NoRequest == [pk |-> "none", error |-> "none", op |-> "none",
              sender |-> "none", raw |-> FALSE]

Request(op, sender, pk, raw, error) ==
  [pk |-> pk, error |-> error, op |-> op, sender |-> sender, raw |-> raw]

NoReturn == [pk |-> "none", sender |-> "none", fn |-> "none",
             result |-> Ok(0)]

(***************************************************************************)
(* Field conversions.  An instance holds cost and cost_estimate as exact   *)
(* Decimals, in Micro; the column has decimal_places = 2, and the value is *)
(* quantized to it (half-even, Python's default context) when it is        *)
(* written.                                                                *)
(***************************************************************************)
MicroPerCent == 10000

\* the write truncates instead of rounding
adapt_decimalfield_value_truncating(micro) == micro \div MicroPerCent

adapt_decimalfield_value(micro) == RoundHalfEven(micro, MicroPerCent)

to_python(cents) == cents * MicroPerCent

CostSenders == {"EndUserCost", "ITPlatformCost"}

CostSender(pk) == IF pk \in EndUserCostIds THEN "EndUserCost" ELSE "ITPlatformCost"

\* the instance a query returns for a stored Cost row
CostInstance(row) ==
  [row EXCEPT !.cost = to_python(row.cost),
              !.cost_estimate = to_python(row.cost_estimate)]

\* the row written for an instance
CostRow(instance) ==
  [instance EXCEPT !.cost = adapt_decimalfield_value(instance.cost),
                   !.cost_estimate = adapt_decimalfield_value(instance.cost_estimate)]

(***************************************************************************)
(* The save hooks.                                                         *)
(***************************************************************************)
\* hasattr(instance, "pre_save")
HasPreSave(sender) == sender \in CostSenders

\* hasattr(instance, "post_save")
HasPostSave(sender) == sender \in {"Bill", "SystemDependency"}

\* the assignments add to the instance's values instead of replacing them
Cost_pre_save_accumulating(db, self) ==
  LET b == db.bill[self.bill]
  IN [self EXCEPT !.cost = @ + b.cost * self.percentage,
                  !.cost_estimate = @ + b.cost_estimate * self.percentage]

\* Cost.pre_save: the two assignments after the if are not in an else
Cost_pre_save(db, self) ==
  LET b      == db.bill[self.bill]
      zeroed == IF ~b.active
                THEN [self EXCEPT !.cost = 0, !.cost_estimate = 0]
                ELSE self
  IN [zeroed EXCEPT !.cost = b.cost * self.percentage,
                    !.cost_estimate = b.cost_estimate * self.percentage]

\* the hook without its test of raw
pre_save_hook_ignoring_raw(db, sender, instance, raw) ==
  IF HasPreSave(sender) THEN Cost_pre_save(db, instance) ELSE instance

pre_save_hook(db, sender, instance, raw) ==
  IF raw THEN instance
  ELSE IF HasPreSave(sender) THEN Cost_pre_save(db, instance)
  ELSE instance

\* Model.save_base between the two signals: the row is written
Persist(db, sender, pk, instance) ==
  CASE sender \in CostSenders ->
         [db EXCEPT !.cost = Put(@, pk, CostRow(instance))]
    [] sender = "Bill" ->
         [db EXCEPT !.bill = Put(@, pk, instance)]
    [] sender = "Platform" ->
         [db EXCEPT !.platform = Put(@, pk, instance)]
    [] sender = "SystemDependency" ->
         [db EXCEPT !.systemdependency = Put(@, pk, instance)]

RECURSIVE save(_, _, _, _, _)

\* for cost in <child>.objects.filter(bill=self): cost.save()
RECURSIVE SaveEach(_, _, _)
SaveEach(db, sender, pks) ==
  IF pks = {} THEN db
  ELSE LET pk == CHOOSE x \in pks : TRUE
       IN SaveEach(save(db, sender, pk, CostInstance(db.cost[pk]), FALSE),
                   sender, pks \ {pk})

\* the Cost rows of every Bill are re-saved, not those of this one
Bill_post_save_every_bill(db, pk) ==
  LET db1 == SaveEach(db, "EndUserCost", DOMAIN db.cost \cap EndUserCostIds)
  IN SaveEach(db1, "ITPlatformCost", DOMAIN db.cost \cap ITPlatformCostIds)

Bill_post_save(db, pk) ==
  LET children(ids) == {c \in DOMAIN db.cost \cap ids : db.cost[c].bill = pk}
      db1 == SaveEach(db, "EndUserCost", children(EndUserCostIds))
  IN SaveEach(db1, "ITPlatformCost", children(ITPlatformCostIds))

\* the hook adds one to the count instead of counting
SystemDependency_post_save_incrementing(db, self) ==
  LET p == self.platform
  IN save(db, "Platform", p,
          [db.platform[p] EXCEPT !.system_count = @ + 1], FALSE)

SystemDependency_post_save(db, self) ==
  LET p == self.platform
      n == Cardinality({d \in DOMAIN db.systemdependency :
                          db.systemdependency[d].platform = p})
  IN save(db, "Platform", p, [db.platform[p] EXCEPT !.system_count = n], FALSE)

post_save_hook(db, sender, pk, instance, raw) ==
  IF raw THEN db
  ELSE IF HasPostSave(sender)
       THEN CASE sender = "Bill" -> Bill_post_save(db, pk)
              [] sender = "SystemDependency" ->
                   SystemDependency_post_save(db, instance)
       ELSE db

\* Model.save: pre_save signal, the write, post_save signal
save(db, sender, pk, instance, raw) ==
  LET inst == pre_save_hook(db, sender, instance, raw)
  IN post_save_hook(Persist(db, sender, pk, inst), sender, pk, inst, raw)


(***************************************************************************)
(* Requests.  A save with raw = FALSE is a save through the admin (the     *)
(* form is validated, then Model.save is called); a save with raw = TRUE   *)
(* is a fixture load, which carries every column of the row.               *)
(***************************************************************************)
\* validators = [MinValueValidator(0), MaxValueValidator(100)]
PercentageValid(percentage) == percentage >= 0 /\ percentage <= 10000

\* unique_together = (("system", "platform"),)
UniqueTogether(db, pk, data) ==
  \A d \in DOMAIN db.systemdependency \ {pk} :
    ~(/\ db.systemdependency[d].system = data.system
      /\ db.systemdependency[d].platform = data.platform)

SaveBill(pk, data, raw) ==
  /\ data.contract \in contract
  /\ data.year \in financialyear
  /\ Stored(save(DB, "Bill", pk, data, raw))
  /\ last' = Request("save", "Bill", pk, raw, "none")
  /\ ret' = NoReturn
  /\ UNCHANGED txn

\* cost and cost_estimate are editable = False: a form keeps what the row
\* has, or the default 0 of a new row; a fixture carries its own
SaveCost(pk, data, raw) ==
  /\ data.bill \in DOMAIN bill
  /\ data.service_pool \in servicepool
  /\ IF pk \in EndUserCostIds
     THEN data.target \in DOMAIN enduserservice
     ELSE data.target \in DOMAIN platform
  /\ raw \/ (IF pk \in DOMAIN cost
             THEN data.cost = cost[pk].cost /\
                  data.cost_estimate = cost[pk].cost_estimate
             ELSE data.cost = 0 /\ data.cost_estimate = 0)
  /\ IF ~raw /\ ~PercentageValid(data.percentage)
     THEN /\ UNCHANGED tables
          /\ last' = Request("save", CostSender(pk), pk, raw, "ValidationError")
     ELSE /\ Stored(save(DB, CostSender(pk), pk, CostInstance(data), raw))
          /\ last' = Request("save", CostSender(pk), pk, raw, "none")
  /\ ret' = NoReturn
  /\ UNCHANGED txn

SaveSystemDependency(pk, data, raw) ==
  /\ data.system \in itsystem
  /\ data.platform \in DOMAIN platform
  /\ IF ~UniqueTogether(DB, pk, data)
     THEN /\ UNCHANGED tables
          /\ last' = Request("save", "SystemDependency", pk, raw, "IntegrityError")
     ELSE /\ Stored(save(DB, "SystemDependency", pk, data, raw))
          /\ last' = Request("save", "SystemDependency", pk, raw, "none")
  /\ ret' = NoReturn
  /\ UNCHANGED txn

(***************************************************************************)
(* Deletion.  Every foreign key is on_delete = PROTECT: a row that is      *)
(* still referenced is not deleted, and nothing is deleted with it.        *)
(***************************************************************************)
Protected(db, sender, pk) ==
  CASE sender = "Contract" ->
         \E b \in DOMAIN db.bill : db.bill[b].contract = pk
    [] sender = "FinancialYear" ->
         \E b \in DOMAIN db.bill : db.bill[b].year = pk
    [] sender = "Bill" ->
         \E c \in DOMAIN db.cost : db.cost[c].bill = pk
    [] sender = "ServicePool" ->
         \E c \in DOMAIN db.cost : db.cost[c].service_pool = pk
    [] sender = "Platform" ->
         \/ \E c \in DOMAIN db.cost \cap ITPlatformCostIds : db.cost[c].target = pk
         \/ \E d \in DOMAIN db.systemdependency :
              db.systemdependency[d].platform = pk
    [] sender = "ITSystem" ->
         \E d \in DOMAIN db.systemdependency : db.systemdependency[d].system = pk
    [] OTHER -> FALSE

Erase(db, sender, pk) ==
  CASE sender = "Contract" -> [db EXCEPT !.contract = @ \ {pk}]
    [] sender = "FinancialYear" -> [db EXCEPT !.financialyear = @ \ {pk}]
    [] sender = "Bill" -> [db EXCEPT !.bill = Drop(@, pk)]
    [] sender = "ServicePool" -> [db EXCEPT !.servicepool = @ \ {pk}]
    [] sender = "Platform" -> [db EXCEPT !.platform = Drop(@, pk)]
    [] sender = "ITSystem" -> [db EXCEPT !.itsystem = @ \ {pk}]
    [] sender \in CostSenders -> [db EXCEPT !.cost = Drop(@, pk)]
    [] sender = "SystemDependency" ->
         [db EXCEPT !.systemdependency = Drop(@, pk)]

\* a delete that protects nothing
delete_unprotected(db, sender, pk) == Erase(db, sender, pk)

\* Model.delete: the collector raises ProtectedError before any row goes
delete(db, sender, pk) ==
  IF Protected(db, sender, pk) THEN db ELSE Erase(db, sender, pk)

Exists(sender, pk) ==
  CASE sender = "Contract" -> pk \in contract
    [] sender = "FinancialYear" -> pk \in financialyear
    [] sender = "Bill" -> pk \in DOMAIN bill
    [] sender = "ServicePool" -> pk \in servicepool
    [] sender = "Platform" -> pk \in DOMAIN platform
    [] sender = "ITSystem" -> pk \in itsystem
    [] sender = "EndUserCost" -> pk \in DOMAIN cost \cap EndUserCostIds
    [] sender = "ITPlatformCost" -> pk \in DOMAIN cost \cap ITPlatformCostIds
    [] sender = "SystemDependency" -> pk \in DOMAIN systemdependency

Delete(sender, pk) ==
  /\ Exists(sender, pk)
  /\ Stored(delete(DB, sender, pk))
  /\ last' = Request("delete", sender, pk, FALSE,
                     IF Protected(DB, sender, pk) THEN "ProtectedError" ELSE "none")
  /\ ret' = NoReturn
  /\ UNCHANGED txn

(***************************************************************************)
(* Reads.  A method either returns a value, Ok(v), or raises, Err(e).      *)
(***************************************************************************)
\* queryset.aggregate(Sum(fieldname)) ... or Decimal(0)
RECURSIVE field_sum(_, _, _)
field_sum(table, pks, fieldname) ==
  IF pks = {} THEN 0
  ELSE LET pk == CHOOSE x \in pks : TRUE
       IN table[pk][fieldname] + field_sum(table, pks \ {pk}, fieldname)

NoRows == [table |-> <<>>, pks |-> {}]

\* a Contract that sums its inactive Bills too
get_cost_queryset_any_bill(db, sender, pk) ==
  CASE sender \in {"Contract", "FinancialYear"} ->
         [table |-> db.bill,
          pks |-> {b \in DOMAIN db.bill :
                     db.bill[b][IF sender = "Contract" THEN "contract"
                                ELSE "year"] = pk}]
    [] sender \in {"EndUserService", "Platform"} ->
         [table |-> db.cost,
          pks |-> {c \in DOMAIN db.cost :
                     CostSender(c) = (IF sender = "Platform"
                                      THEN "ITPlatformCost" ELSE "EndUserCost")
                       /\ db.cost[c].target = pk}]
    [] OTHER -> NoRows

\* get_cost_queryset and its overrides; none() where a model has none
get_cost_queryset(db, sender, pk) ==
  CASE sender = "Contract" ->
         [table |-> db.bill,
          pks |-> {b \in DOMAIN db.bill :
                     db.bill[b].contract = pk /\ db.bill[b].active}]
    [] sender = "FinancialYear" ->
         [table |-> db.bill,
          pks |-> {b \in DOMAIN db.bill : db.bill[b].year = pk}]
    [] sender = "EndUserService" ->
         [table |-> db.cost,
          pks |-> {c \in DOMAIN db.cost \cap EndUserCostIds :
                     db.cost[c].target = pk}]
    [] sender = "Platform" ->
         [table |-> db.cost,
          pks |-> {c \in DOMAIN db.cost \cap ITPlatformCostIds :
                     db.cost[c].target = pk}]
    [] OTHER -> NoRows

\* the number of linked Divisions instead of the sum of their users
total_user_count_divisions(db, pk) == Cardinality(db.enduserservice[pk].divisions)

\* EndUserService.total_user_count
total_user_count(db, pk) ==
  field_sum(db.division, db.enduserservice[pk].divisions, "user_count")

\* a quotient that is 0 where the divisor is 0
DecimalQuotient_zero(a, b) == IF b = 0 THEN Ok(Dec(0, 0)) ELSE Ok(DecDiv(a, b))

\* Decimal(a) / Decimal(b): 0/0 is InvalidOperation, x/0 DivisionByZero
DecimalQuotient(a, b) ==
  IF b = 0
  THEN (IF a = 0 THEN Err("InvalidOperation") ELSE Err("DivisionByZero"))
  ELSE Ok(DecDiv(a, b))

\* round(Decimal(user_count) / Decimal(total) * amount, 2), in cents
Share(user_count, total, amount) ==
  LET q == DecimalQuotient(user_count, total)
  IN IF q.ok THEN Ok(Quantize(DecMul(q.value, amount, -2), 2)) ELSE q

\* the loop of Division.enduser_cost and enduser_estimate
RECURSIVE EndUserLoop(_, _, _, _, _)
EndUserLoop(db, pk, services, fieldname, total) ==
  IF services = {} THEN Ok(total)
  ELSE LET service == CHOOSE x \in services : TRUE
           qs      == get_cost_queryset(db, "EndUserService", service)
           share   == Share(db.division[pk].user_count,
                            total_user_count(db, service),
                            field_sum(qs.table, qs.pks, fieldname))
       IN IF share.ok
          THEN EndUserLoop(db, pk, services \ {service}, fieldname,
                           total + share.value)
          ELSE share

\* self.enduserservice_set.all()
enduserservice_set(db, pk) ==
  {s \in DOMAIN db.enduserservice : pk \in db.enduserservice[s].divisions}

Division_enduser(db, pk, fieldname) ==
  EndUserLoop(db, pk, enduserservice_set(db, pk), fieldname, 0)

\* self.cost() and self.cost_estimate(): CostSummary's, Division's
\* override, and on a Cost the field of the same name, which is no method
Summary(db, sender, pk, fieldname) ==
  CASE sender \in CostSenders -> Err("TypeError")
    [] sender = "Division" -> Division_enduser(db, pk, fieldname)
    [] OTHER -> LET qs == get_cost_queryset(db, sender, pk)
                IN Ok(field_sum(qs.table, qs.pks, fieldname))

\* FinancialYear.objects.first(), by Meta.ordering
FirstYear(db) == CHOOSE y \in db.financialyear : \A z \in db.financialyear : y <= z

\* the percentage without its test of a year total of 0
Percentage_unguarded(db, sender, pk, fieldname) ==
  IF db.financialyear = {} THEN Err("AttributeError")
  ELSE LET year_cost == Summary(db, "FinancialYear", FirstYear(db), fieldname).value
           own       == Summary(db, sender, pk, fieldname)
           q         == IF own.ok THEN DecimalQuotient(own.value, year_cost) ELSE own
       IN IF q.ok THEN Ok(Quantize(DecMul(q.value, 100, 0), 2)) ELSE q

\* cost_percentage and cost_estimate_percentage, in hundredths of a percent
Percentage(db, sender, pk, fieldname) ==
  IF db.financialyear = {} THEN Err("AttributeError")
  ELSE LET year_cost == Summary(db, "FinancialYear", FirstYear(db), fieldname).value
       IN IF year_cost = 0 THEN Ok(0)
          ELSE LET own == Summary(db, sender, pk, fieldname)
               IN IF own.ok
                  THEN Ok(Quantize(DecMul(DecDiv(own.value, year_cost), 100, 0), 2))
                  ELSE own

\* Bill.allocated
allocated(db, pk) ==
  field_sum(db.cost, {c \in DOMAIN db.cost : db.cost[c].bill = pk}, "percentage")

Lookups == {"0", "lt_100", "100", "gt_100"}

\* AllocatedListFilter.queryset: Sum is NULL for a Bill without Cost rows,
\* and NULL satisfies no comparison
AllocatedListFilter_queryset(db, value) ==
  LET items(b) == {c \in DOMAIN db.cost : db.cost[c].bill = b}
      sum(b)   == field_sum(db.cost, items(b), "percentage")
  IN CASE value = "0" ->
            {b \in DOMAIN db.bill :
               ~\E c \in items(b) : db.cost[c].percentage > 0}
       [] value = "lt_100" ->
            {b \in DOMAIN db.bill :
               items(b) # {} /\ sum(b) < 10000 /\ sum(b) > 0}
       [] value = "100" ->
            {b \in DOMAIN db.bill : items(b) # {} /\ sum(b) = 10000}
       [] value = "gt_100" ->
            {b \in DOMAIN db.bill : items(b) # {} /\ sum(b) > 10000}

Methods == {"cost", "cost_estimate", "cost_percentage",
            "cost_estimate_percentage"}

Eval(fn, sender, pk) ==
  CASE fn = "cost" -> Summary(DB, sender, pk, "cost")
    [] fn = "cost_estimate" -> Summary(DB, sender, pk, "cost_estimate")
    [] fn = "cost_percentage" -> Percentage(DB, sender, pk, "cost")
    [] fn = "cost_estimate_percentage" ->
         Percentage(DB, sender, pk, "cost_estimate")
    [] fn = "allocated" -> Ok(allocated(DB, pk))
    [] fn = "queryset" -> Ok(AllocatedListFilter_queryset(DB, pk))

\* a read: nothing is written
Call(fn, sender, pk) ==
  /\ ret' = [pk |-> pk, sender |-> sender, fn |-> fn,
             result |-> Eval(fn, sender, pk)]
  /\ UNCHANGED <<tables, last, txn>>

(***************************************************************************)
(* A save, statement by statement.  Model.save sends pre_save, writes the  *)
(* row and sends post_save; every query and every write is a statement of  *)
(* its own, and nothing in the models opens a transaction around them, so  *)
(* the statements of two saves may interleave and a save that fails keeps  *)
(* what it has written.                                                    *)
(***************************************************************************)
Procs == {"t1", "t2"}

Idle ==
  [pk |-> "none", sender |-> "none", instance |-> <<>>, pc |-> "idle",
   kind |-> "none", loaded |-> <<>>, child |-> "none", before |-> <<>>,
   writes |-> <<>>]

\* the children of every Bill instead of those of this one
Children_of_any_bill(db, kind, b) ==
  {c \in DOMAIN db.cost : CostSender(c) = kind}

\* <child>.objects.filter(bill=self)
Children(db, kind, b) ==
  {c \in DOMAIN db.cost :
     CostSender(c) = kind /\ db.cost[c].bill = b}

\* the instances a for loop over that queryset holds once it has started
Load(db, kind, b) ==
  [c \in Children(db, kind, b) |-> CostInstance(db.cost[c])]

Written(sender, pk, depth) == [pk |-> pk, sender |-> sender, depth |-> depth]

\* instance.save() is called
Begin(t, sender, pk, instance) ==
  /\ txn[t].pc = "idle"
  /\ txn' = [txn EXCEPT ![t] = [Idle EXCEPT !.pc = "pre_save", !.sender = sender,
                                            !.pk = pk, !.instance = instance,
                                            !.before = DB]]
  /\ UNCHANGED <<tables, last, ret>>

\* the pre_save receiver: Cost.pre_save reads the Bill
PreSave(t) ==
  /\ txn[t].pc = "pre_save"
  /\ txn' = [txn EXCEPT ![t].pc = "write",
                        ![t].instance =
                          pre_save_hook(DB, txn[t].sender, txn[t].instance, FALSE)]
  /\ UNCHANGED <<tables, last, ret>>

\* the row is written, all its columns
Write(t) ==
  /\ txn[t].pc = "write"
  /\ Stored(Persist(DB, txn[t].sender, txn[t].pk, txn[t].instance))
  /\ txn' = [txn EXCEPT ![t].pc = IF HasPostSave(txn[t].sender)
                                  THEN "post_save" ELSE "done",
                        ![t].writes = Append(@, Written(txn[t].sender, txn[t].pk, 1))]
  /\ UNCHANGED <<last, ret>>

\* Bill.post_save: the first loop starts
BillPostSave(t) ==
  /\ txn[t].pc = "post_save"
  /\ txn[t].sender = "Bill"
  /\ txn' = [txn EXCEPT ![t].pc = "children", ![t].kind = "EndUserCost",
                        ![t].loaded = Load(DB, "EndUserCost", txn[t].pk)]
  /\ UNCHANGED <<tables, last, ret>>

\* cost.save() of the loop: the pre_save receiver of the child
ChildPreSave(t) ==
  /\ txn[t].pc = "children"
  /\ \E c \in DOMAIN txn[t].loaded :
       txn' = [txn EXCEPT ![t].pc = "child_write", ![t].child = c,
                          ![t].loaded[c] =
                            pre_save_hook(DB, txn[t].kind, txn[t].loaded[c], FALSE)]
  /\ UNCHANGED <<tables, last, ret>>

\* cost.save() of the loop: the write; a Cost has no post_save
ChildWrite(t) ==
  /\ txn[t].pc = "child_write"
  /\ Stored(Persist(DB, txn[t].kind, txn[t].child, txn[t].loaded[txn[t].child]))
  /\ txn' = [txn EXCEPT ![t].pc = "children", ![t].child = "none",
                        ![t].loaded = Drop(@, txn[t].child),
                        ![t].writes = Append(@, Written(txn[t].kind, txn[t].child, 2))]
  /\ UNCHANGED <<last, ret>>

\* a loop is over: the second loop starts, or post_save returns
NextLoop(t) ==
  /\ txn[t].pc = "children"
  /\ DOMAIN txn[t].loaded = {}
  /\ txn' = IF txn[t].kind = "EndUserCost"
            THEN [txn EXCEPT ![t].kind = "ITPlatformCost",
                             ![t].loaded = Load(DB, "ITPlatformCost", txn[t].pk)]
            ELSE [txn EXCEPT ![t].pc = "done", ![t].kind = "none"]
  /\ UNCHANGED <<tables, last, ret>>

\* SystemDependency.post_save: the platform is fetched, its rows counted
DependencyPostSave(t) ==
  /\ txn[t].pc = "post_save"
  /\ txn[t].sender = "SystemDependency"
  /\ LET p == txn[t].instance.platform
         n == Cardinality({d \in DOMAIN systemdependency :
                             systemdependency[d].platform = p})
     IN txn' = [txn EXCEPT ![t].pc = "platform_write", ![t].kind = "Platform",
                           ![t].child = p,
                           ![t].loaded = [x \in {p} |->
                                            [platform[p] EXCEPT !.system_count = n]]]
  /\ UNCHANGED <<tables, last, ret>>

\* self.platform.save(): a Platform has no hook
PlatformWrite(t) ==
  /\ txn[t].pc = "platform_write"
  /\ Stored(Persist(DB, "Platform", txn[t].child, txn[t].loaded[txn[t].child]))
  /\ txn' = [txn EXCEPT ![t].pc = "done", ![t].kind = "none", ![t].child = "none",
                        ![t].loaded = <<>>,
                        ![t].writes = Append(@, Written("Platform", txn[t].child, 2))]
  /\ UNCHANGED <<last, ret>>

\* a write of the cascade raises: save() ends there
Fail(t) ==
  /\ txn[t].pc \in {"child_write", "platform_write"}
  /\ txn' = [txn EXCEPT ![t].pc = "failed"]
  /\ UNCHANGED <<tables, last, ret>>

\* save() has returned or raised
End(t) ==
  /\ txn[t].pc \in {"done", "failed"}
  /\ last' = Request("save", txn[t].sender, txn[t].pk, FALSE,
                     IF txn[t].pc = "failed" THEN "Error" ELSE "none")
  /\ txn' = [txn EXCEPT ![t] = Idle]
  /\ ret' = NoReturn
  /\ UNCHANGED tables

\* the statements of a save in progress
Step(t) ==
  \/ PreSave(t)
  \/ Write(t)
  \/ BillPostSave(t)
  \/ ChildPreSave(t)
  \/ ChildWrite(t)
  \/ NextLoop(t)
  \/ DependencyPostSave(t)
  \/ PlatformWrite(t)

(***************************************************************************)
(* Initial states and inputs.                                              *)
(***************************************************************************)
MaxAmount == 3

\* 0%, 25%, 50%, 100%, and 100.01%, which the validators refuse
Percentages == {0, 2500, 5000, 10000, 10001}

\* cost and cost_estimate of a Bill, in cents
BillFigures == {<<0, 0>>, <<1, MaxAmount>>, <<MaxAmount, 1>>}

\* the reference rows are there; no Bill, Cost or SystemDependency yet
Init ==
  /\ contract = ContractIds
  /\ financialyear = FinancialYearIds
  /\ bill = <<>>
  /\ servicepool = ServicePoolIds
  /\ cost = <<>>
  /\ division = [d \in DivisionIds |-> [user_count |-> 1]]
  /\ enduserservice = [s \in EndUserServiceIds |-> [divisions |-> DivisionIds]]
  /\ platform = [p \in PlatformIds |-> [system_count |-> 0, name |-> p]]
  /\ itsystem = ITSystemIds
  /\ systemdependency = <<>>
  /\ last = NoRequest
  /\ ret = NoReturn
  /\ txn = [t \in Procs |-> Idle]

BillData(contracts, years) ==
  {[contract |-> k, cost |-> f[1], cost_estimate |-> f[2], active |-> a,
    year |-> y] :
     f \in BillFigures, a \in BOOLEAN, k \in contracts, y \in years}

\* percentages of fixture rows: a load validates nothing
FixturePercentages == {-5000, 5000}

\* what a fixture carries for the two derived columns
FixtureFigures == {<<0, 0>>, <<2, 1>>}

\* a form over row pk: the derived columns are those of the row (default 0)
CostForm(pk, b, p, t) ==
  [bill |-> b, cost |-> IF pk \in DOMAIN cost THEN cost[pk].cost ELSE 0,
   cost_estimate |-> IF pk \in DOMAIN cost THEN cost[pk].cost_estimate ELSE 0,
   percentage |-> p, service_pool |-> "sp1", target |-> t]

\* a fixture row
CostFixture(b, p, t, f) ==
  [bill |-> b, cost |-> f[1], cost_estimate |-> f[2], percentage |-> p,
   service_pool |-> "sp1", target |-> t]

CostTarget(pk) == IF pk \in EndUserCostIds THEN "sv1" ELSE "pf1"

SystemDependencyData == [platform : PlatformIds, system : ITSystemIds]

(***************************************************************************)
(* SpecCost: Bills and their Cost rows, saved through the admin or loaded  *)
(* from fixtures.                                                          *)
(***************************************************************************)
NextCost ==
  \/ \E pk \in BillIds, data \in BillData({"k1"}, {1}), raw \in BOOLEAN :
       SaveBill(pk, data, raw)
  \/ \E pk \in {"e1", "p1"}, b \in BillIds, p \in {2500, 5000, 10000, 10001} :
       SaveCost(pk, CostForm(pk, b, p, CostTarget(pk)), FALSE)
  \/ \E pk \in {"e1", "p1"}, b \in BillIds, f \in FixtureFigures :
       SaveCost(pk, CostFixture(b, 5000, CostTarget(pk), f), TRUE)

SpecCost == Init /\ [][NextCost]_vars

(***************************************************************************)
(* SpecDep: SystemDependency rows and Platform.system_count.               *)
(***************************************************************************)
NextDep ==
  \/ \E pk \in SystemDependencyIds, data \in SystemDependencyData, raw \in BOOLEAN :
       SaveSystemDependency(pk, data, raw)
  \/ \E pk \in SystemDependencyIds : Delete("SystemDependency", pk)

SpecDep == Init /\ [][NextDep]_vars

(***************************************************************************)
(* SpecCount: SystemDependency rows are saved and deleted; nothing is      *)
(* loaded.                                                                 *)
(***************************************************************************)
NextCount ==
  \/ \E pk \in SystemDependencyIds, data \in SystemDependencyData :
       SaveSystemDependency(pk, data, FALSE)
  \/ \E pk \in SystemDependencyIds : Delete("SystemDependency", pk)

SpecCount == Init /\ [][NextCount]_vars

(***************************************************************************)
(* SpecRaw: every hooked model, saved and loaded side by side.             *)
(***************************************************************************)
NextRaw ==
  \/ \E data \in BillData({"k1"}, {1}), raw \in BOOLEAN : SaveBill("b1", data, raw)
  \/ \E pk \in {"e1", "p1"}, p \in {0, 5000} :
       SaveCost(pk, CostForm(pk, "b1", p, CostTarget(pk)), FALSE)
  \/ \E pk \in {"e1", "p1"}, p \in {0, 5000}, f \in FixtureFigures :
       SaveCost(pk, CostFixture("b1", p, CostTarget(pk), f), TRUE)
  \/ \E data \in SystemDependencyData, raw \in BOOLEAN :
       SaveSystemDependency("sd1", data, raw)

SpecRaw == Init /\ [][NextRaw]_vars

(***************************************************************************)
(* SpecDelete: rows are created and deleted.                               *)
(***************************************************************************)
Models == {"Contract", "FinancialYear", "Bill", "ServicePool", "Platform",
           "ITSystem", "EndUserCost", "ITPlatformCost", "SystemDependency"}

Keys(sender) ==
  CASE sender = "Contract" -> ContractIds
    [] sender = "FinancialYear" -> FinancialYearIds
    [] sender = "Bill" -> BillIds
    [] sender = "ServicePool" -> ServicePoolIds
    [] sender = "Platform" -> PlatformIds
    [] sender = "ITSystem" -> ITSystemIds
    [] sender = "EndUserCost" -> EndUserCostIds
    [] sender = "ITPlatformCost" -> ITPlatformCostIds
    [] sender = "SystemDependency" -> SystemDependencyIds

NextDelete ==
  \/ \E k \in {"k1"}, y \in FinancialYearIds :
       SaveBill("b1", [contract |-> k, cost |-> 1,
                       cost_estimate |-> MaxAmount, active |-> TRUE,
                       year |-> y], FALSE)
  \/ \E pk \in {"e1", "p1"} :
       SaveCost(pk, CostForm(pk, "b1", 5000, CostTarget(pk)), FALSE)
  \/ SaveSystemDependency("sd1", [platform |-> "pf1", system |-> "s1"], FALSE)
  \/ \E sender \in Models : \E pk \in Keys(sender) : Delete(sender, pk)

SpecDelete == Init /\ [][NextDelete]_vars

(***************************************************************************)
(* SpecAllocation: the allocation of Bills, written and read.              *)
(***************************************************************************)
NextAllocation ==
  \/ \E pk \in BillIds :
       SaveBill(pk, [contract |-> "k1", cost |-> 1,
                     cost_estimate |-> MaxAmount, active |-> TRUE,
                     year |-> 1], FALSE)
  \/ \E pk \in CostIds, b \in BillIds, p \in {0, 5000, 10000, 10001} :
       SaveCost(pk, CostForm(pk, b, p, CostTarget(pk)), FALSE)
  \/ \E pk \in EndUserCostIds, b \in BillIds, p \in FixturePercentages :
       SaveCost(pk, CostFixture(b, p, CostTarget(pk), <<0, 0>>), TRUE)
  \/ \E pk \in BillIds : Call("allocated", "Bill", pk)
  \/ \E value \in Lookups : Call("queryset", "AllocatedListFilter", value)

SpecAllocation == Init /\ [][NextAllocation]_vars

(***************************************************************************)
(* SpecCascade: one save at a time, statement by statement, over two Bills *)
(* with Cost rows; a write of a cascade may fail.                          *)
(***************************************************************************)
\* the tables of Init
Base ==
  [contract |-> ContractIds, financialyear |-> FinancialYearIds, bill |-> <<>>,
   servicepool |-> ServicePoolIds, cost |-> <<>>,
   division |-> [d \in DivisionIds |-> [user_count |-> 1]],
   enduserservice |-> [s \in EndUserServiceIds |-> [divisions |-> DivisionIds]],
   platform |-> [p \in PlatformIds |-> [system_count |-> 0, name |-> p]],
   itsystem |-> ITSystemIds, systemdependency |-> <<>>]

\* the tables are those of db
InState(db) ==
  /\ contract = db.contract
  /\ financialyear = db.financialyear
  /\ bill = db.bill
  /\ servicepool = db.servicepool
  /\ cost = db.cost
  /\ division = db.division
  /\ enduserservice = db.enduserservice
  /\ platform = db.platform
  /\ itsystem = db.itsystem
  /\ systemdependency = db.systemdependency

ActiveBill(f) ==
  [contract |-> "k1", cost |-> f[1], cost_estimate |-> f[2], active |-> TRUE,
   year |-> 1]

NewCost(b, p, t) == CostInstance(CostFixture(b, p, t, <<0, 0>>))

\* Bill b1 saved with figures f, then its Cost rows of the keys in costs
RECURSIVE Seeded(_, _)
Seeded(f, costs) ==
  IF costs = {} THEN save(Base, "Bill", "b1", ActiveBill(f), FALSE)
  ELSE LET c == CHOOSE x \in costs : TRUE
       IN save(Seeded(f, costs \ {c}), CostSender(c), c,
               NewCost("b1", 5000, CostTarget(c)), FALSE)

InitCascade ==
  /\ \E f \in BillFigures :
       LET db == Seeded(f, {"e1", "p1"})
           d1 == save(db, "Bill", "b2", ActiveBill(<<1, MaxAmount>>), FALSE)
       IN InState(save(d1, "EndUserCost", "e2", NewCost("b2", 5000, "sv1"), FALSE))
  /\ last = NoRequest
  /\ ret = NoReturn
  /\ txn = [t \in Procs |-> Idle]

NextCascade ==
  \/ \E f \in BillFigures : Begin("t1", "Bill", "b1", ActiveBill(f))
  \/ \E pk \in {"e1", "p1"} :
       Begin("t1", CostSender(pk), pk,
             CostInstance([cost[pk] EXCEPT !.percentage = 10000]))
  \/ \E p \in PlatformIds :
       Begin("t1", "SystemDependency", "sd1", [platform |-> p,
                                               system |-> "s1"])
  \/ Step("t1")
  \/ Fail("t1")
  \/ End("t1")

SpecCascade == InitCascade /\ [][NextCascade]_vars

(***************************************************************************)
(* SpecRace: two callers save at the same time, statement by statement:    *)
(* one saves Bill b1, the other EndUserCost e1 of that Bill with another   *)
(* percentage.  No write fails.                                            *)
(***************************************************************************)
NextRace ==
  \/ \E f \in BillFigures : Begin("t1", "Bill", "b1", ActiveBill(f))
  \/ \E p \in {5000, 10000} :
       Begin("t2", "EndUserCost", "e1",
             CostInstance([cost["e1"] EXCEPT !.percentage = p]))
  \/ \E t \in Procs :
       \/ PreSave(t)
       \/ Write(t)
       \/ BillPostSave(t)
       \/ ChildPreSave(t)
       \/ ChildWrite(t)
       \/ NextLoop(t)
       \/ End(t)

SpecRace == InitCascade /\ [][NextRace]_vars

(***************************************************************************)
(* SpecRaceCount: two callers save at the same time, statement by          *)
(* statement, one SystemDependency sd1 and the other sd2.  No write fails. *)
(***************************************************************************)
NextRaceCount ==
  \/ \E p \in PlatformIds :
       Begin("t1", "SystemDependency", "sd1", [platform |-> p, system |-> "s1"])
  \/ \E p \in PlatformIds :
       Begin("t2", "SystemDependency", "sd2", [platform |-> p, system |-> "s2"])
  \/ \E t \in Procs :
       \/ PreSave(t)
       \/ Write(t)
       \/ DependencyPostSave(t)
       \/ PlatformWrite(t)
       \/ End(t)

SpecRaceCount == Init /\ [][NextRaceCount]_vars

(***************************************************************************)
(* SpecAggregate: Bills of either Contract and either FinancialYear,       *)
(* active or not, and Cost rows on either target are saved through the     *)
(* admin, and cost() and cost_estimate() are read in between.              *)
(***************************************************************************)
Aggregates ==
  {<<"Contract", "k1">>, <<"Contract", "k2">>, <<"FinancialYear", 1>>,
   <<"FinancialYear", 2>>, <<"EndUserService", "sv1">>,
   <<"EndUserService", "sv2">>, <<"Platform", "pf1">>, <<"Platform", "pf2">>}

Targets(pk) == IF pk \in EndUserCostIds THEN EndUserServiceIds ELSE PlatformIds

NextAggregate ==
  \/ \E data \in BillData(ContractIds, FinancialYearIds) :
       SaveBill("b1", data, FALSE)
  \/ \E a \in BOOLEAN :
       SaveBill("b2", [ActiveBill(<<MaxAmount, 1>>) EXCEPT !.active = a], FALSE)
  \/ \E pk \in {"e1", "p1"}, b \in BillIds :
       \E t \in Targets(pk) : SaveCost(pk, CostForm(pk, b, 10000, t), FALSE)
  \/ \E fn \in {"cost", "cost_estimate"}, s \in Aggregates : Call(fn, s[1], s[2])

SpecAggregate == Init /\ [][NextAggregate]_vars

(***************************************************************************)
(* SpecFrame: Bills, Cost rows and SystemDependency rows are saved through *)
(* the admin, one save at a time; Cost rows are loaded from fixtures too,  *)
(* so that a row may hold figures that a re-save would change.             *)
(***************************************************************************)
FrameBills == BillData({"k1"}, {1})

FramePercentages == {5000, 10000}

NextFrame ==
  \/ \E pk \in BillIds, data \in FrameBills : SaveBill(pk, data, FALSE)
  \/ \E pk \in {"e1", "p1"}, b \in BillIds, p \in FramePercentages :
       SaveCost(pk, CostForm(pk, b, p, CostTarget(pk)), FALSE)
  \/ \E pk \in {"e1", "p1"}, b \in BillIds :
       SaveCost(pk, CostFixture(b, 5000, CostTarget(pk), <<2, 1>>), TRUE)
  \/ \E p \in PlatformIds :
       SaveSystemDependency("sd1", [platform |-> p, system |-> "s1"], FALSE)

SpecFrame == Init /\ [][NextFrame]_vars

(***************************************************************************)
(* SpecDivision: the apportionment of service costs to Divisions, read     *)
(* from any stored state of the Divisions, their links and the             *)
(* EndUserCost rows.                                                       *)
(***************************************************************************)
MaxUserCount == 5

TheBill == [contract |-> "k1", cost |-> MaxAmount, cost_estimate |-> 1,
            active |-> TRUE, year |-> 1]

InitDivision ==
  /\ contract = ContractIds
  /\ financialyear = FinancialYearIds
  /\ bill = [b \in {"b1"} |-> TheBill]
  /\ servicepool = ServicePoolIds
  /\ \E t \in EndUserServiceIds, f1 \in BillFigures, f2 \in BillFigures :
       cost = [c \in EndUserCostIds |->
                 IF c = "e1" THEN CostFixture("b1", 5000, "sv1", f1)
                 ELSE CostFixture("b1", 5000, t, f2)]
  /\ division \in [DivisionIds -> [user_count : 0..MaxUserCount]]
  /\ enduserservice \in [EndUserServiceIds -> [divisions : SUBSET DivisionIds]]
  /\ platform = [p \in PlatformIds |-> [system_count |-> 0, name |-> p]]
  /\ itsystem = ITSystemIds
  /\ systemdependency = <<>>
  /\ last = NoRequest
  /\ ret = NoReturn
  /\ txn = [t \in Procs |-> Idle]

NextDivision ==
  \E fn \in {"cost", "cost_estimate"}, pk \in DivisionIds : Call(fn, "Division", pk)

SpecDivision == InitDivision /\ [][NextDivision]_vars

(***************************************************************************)
(* SpecPercentage: the percentages of the year's total, read from any      *)
(* stored state of the Bills and Cost rows.                                *)
(***************************************************************************)
Summaries ==
  {<<"Contract", "k1">>, <<"Contract", "k2">>, <<"FinancialYear", 1>>,
   <<"FinancialYear", 2>>, <<"ServicePool", "sp1">>, <<"Division", "d1">>,
   <<"EndUserService", "sv1">>, <<"Platform", "pf1">>, <<"ITSystem", "s1">>,
   <<"SystemDependency", "sd1">>, <<"EndUserCost", "e1">>,
   <<"ITPlatformCost", "p1">>}

InitPercentage ==
  /\ contract = ContractIds
  /\ financialyear = FinancialYearIds
  /\ \E f1 \in BillFigures, f2 \in BillFigures, a \in BOOLEAN,
        y \in FinancialYearIds :
       bill = [b \in BillIds |->
                 IF b = "b1"
                 THEN [contract |-> "k1", cost |-> f1[1],
                       cost_estimate |-> f1[2], active |-> a, year |-> y]
                 ELSE [contract |-> "k2", cost |-> f2[1],
                       cost_estimate |-> f2[2], active |-> TRUE, year |-> 2]]
  /\ servicepool = ServicePoolIds
  /\ \E f1 \in BillFigures, f2 \in BillFigures :
       cost = [c \in {"e1", "p1"} |->
                 IF c = "e1" THEN CostFixture("b1", 5000, "sv1", f1)
                 ELSE CostFixture("b2", 5000, "pf1", f2)]
  /\ \E u \in 0..1 :
       division = [d \in DivisionIds |->
                     [user_count |-> IF d = "d1" THEN u ELSE 0]]
  /\ enduserservice = [s \in EndUserServiceIds |-> [divisions |-> DivisionIds]]
  /\ platform = [p \in PlatformIds |-> [system_count |-> 0, name |-> p]]
  /\ itsystem = ITSystemIds
  /\ systemdependency = [d \in {"sd1"} |-> [platform |-> "pf1",
                                            system |-> "s1"]]
  /\ last = NoRequest
  /\ ret = NoReturn
  /\ txn = [t \in Procs |-> Idle]

NextPercentage ==
  \E fn \in Methods, s \in Summaries : Call(fn, s[1], s[2])

SpecPercentage == InitPercentage /\ [][NextPercentage]_vars

(***************************************************************************)
(* Properties.                                                             *)
(***************************************************************************)
\* the last request was a save of model sender that went through
Saved(senders, raw) ==
  /\ last.op = "save"
  /\ last.sender \in senders
  /\ last.raw = raw
  /\ last.error = "none"

CostsOf(b) == {c \in DOMAIN cost : cost[c].bill = b}

\* the derivation of section 4.3 of the specification, to the cent:
\* nothing for an inactive Bill; twice the distance to the exact product
\* is at most one cent
DerivedFrom(b, c, fieldname) ==
  IF bill[b].active
  THEN LET d == cost[c][fieldname] * MicroPerCent - bill[b][fieldname] * cost[c].percentage
       IN 2 * d <= MicroPerCent /\ -2 * d <= MicroPerCent
  ELSE cost[c][fieldname] = 0

\* C1: a Cost row saved (not loaded) while its Bill is inactive has cost = 0
\* and cost_estimate = 0, and so has every Cost row of a Bill that was
\* saved inactive.
C1_InactiveBillZero ==
  /\ Saved(CostSenders, FALSE) /\ ~bill[cost[last.pk].bill].active
       => cost[last.pk].cost = 0 /\ cost[last.pk].cost_estimate = 0
  /\ Saved({"Bill"}, FALSE) /\ ~bill[last.pk].active
       => \A c \in CostsOf(last.pk) :
            cost[c].cost = 0 /\ cost[c].cost_estimate = 0

\* C2: after a Bill is saved, every Cost row of that Bill holds the values
\* derived (section 4.3) from the Bill's stored cost, cost_estimate and
\* active and the row's percentage.
C2_CascadeDerived ==
  Saved({"Bill"}, FALSE)
    => \A c \in CostsOf(last.pk) :
         /\ DerivedFrom(last.pk, c, "cost")
         /\ DerivedFrom(last.pk, c, "cost_estimate")

\* C3 as stated: a Cost row saved while its Bill is active holds exactly
\* bill.cost * percentage / 100 and bill.cost_estimate * percentage / 100.
C3_ExactProduct ==
  Saved(CostSenders, FALSE) /\ bill[cost[last.pk].bill].active
    => LET c == cost[last.pk]
           b == bill[c.bill]
       IN /\ c.cost * MicroPerCent = b.cost * c.percentage
          /\ c.cost_estimate * MicroPerCent = b.cost_estimate * c.percentage

\* C3 as amended: a Cost row saved while its Bill is active holds
\* bill.cost * percentage / 100 and bill.cost_estimate * percentage / 100
\* rounded to the nearest cent (the two decimal places of the column), and
\* holds them exactly when they have no more than two decimal places.
C3_RoundedProduct ==
  Saved(CostSenders, FALSE) /\ bill[cost[last.pk].bill].active
    => LET c == cost[last.pk]
           b == bill[c.bill]
       IN \A fieldname \in {"cost", "cost_estimate"} :
            /\ DerivedFrom(c.bill, last.pk, fieldname)
            /\ (b[fieldname] * c.percentage) % MicroPerCent = 0
                 => c[fieldname] * MicroPerCent = b[fieldname] * c.percentage

\* a Cost row was saved under an active Bill, and its cost was rounded up
\* and its cost_estimate down, or the reverse
C3_Witness ==
  /\ Saved(CostSenders, FALSE)
  /\ bill[cost[last.pk].bill].active
  /\ LET c == cost[last.pk]
         b == bill[c.bill]
     IN \/ /\ c.cost * MicroPerCent > b.cost * c.percentage
           /\ c.cost_estimate * MicroPerCent < b.cost_estimate * c.percentage
        \/ /\ c.cost * MicroPerCent < b.cost * c.percentage
           /\ c.cost_estimate * MicroPerCent > b.cost_estimate * c.percentage

\* the SystemDependency rows that reference Platform p
DependenciesOn(p) ==
  {d \in DOMAIN systemdependency : systemdependency[d].platform = p}

\* C4 as stated: after any write of a SystemDependency row, the
\* system_count of the Platform it references is the number of
\* SystemDependency rows that reference that Platform.
C4_AnyWriteCounts ==
  last.op = "save" /\ last.sender = "SystemDependency" /\ last.error = "none"
    => LET p == systemdependency[last.pk].platform
       IN platform[p].system_count = Cardinality(DependenciesOn(p))

\* C4 as amended: after any write of a SystemDependency row that is not a
\* raw load, the system_count of the Platform it references is the number
\* of SystemDependency rows that reference that Platform.
C4_SavedCounts ==
  Saved({"SystemDependency"}, FALSE)
    => LET p == systemdependency[last.pk].platform
       IN platform[p].system_count = Cardinality(DependenciesOn(p))

\* a dependency was saved onto a Platform that now has two, after it was
\* moved off another Platform, whose count no longer matches
C4_Witness ==
  /\ Saved({"SystemDependency"}, FALSE)
  /\ Cardinality(DependenciesOn(systemdependency[last.pk].platform)) = 2
  /\ \E p \in DOMAIN platform :
       platform[p].system_count # Cardinality(DependenciesOn(p))

\* the sum of the values of a function
RECURSIVE Total(_)
Total(f) ==
  IF DOMAIN f = {} THEN 0
  ELSE LET x == CHOOSE y \in DOMAIN f : TRUE
       IN f[x] + Total([y \in DOMAIN f \ {x} |-> f[y]])

\* the total of the Bills of the reference year, the one that ends first
YearTotal(fieldname) ==
  LET y == CHOOSE z \in financialyear : \A w \in financialyear : z <= w
  IN Total([b \in {x \in DOMAIN bill : bill[x].year = y} |-> bill[b][fieldname]])

\* C5: where the reference FinancialYear's cost() is 0, cost_percentage()
\* of any entity returns 0 and raises nothing; likewise
\* cost_estimate_percentage() where its cost_estimate() is 0.
C5_ZeroYearTotal ==
  /\ ret.fn = "cost_percentage" /\ YearTotal("cost") = 0
       => ret.result = Ok(0)
  /\ ret.fn = "cost_estimate_percentage" /\ YearTotal("cost_estimate") = 0
       => ret.result = Ok(0)

\* cost_percentage() was read, with a year total of 0, of an entity whose
\* own cost() raises, while the other year has Bills with a cost
C5_Witness ==
  /\ ret.fn = "cost_percentage"
  /\ YearTotal("cost") = 0
  /\ ~Summary(DB, ret.sender, ret.pk, "cost").ok
  /\ \E b \in DOMAIN bill : bill[b].cost > 0

\* the services a Division is linked to
ServicesOf(d) == {s \in DOMAIN enduserservice : d \in enduserservice[s].divisions}

\* the users of the Divisions linked to a service
Users(s) == Total([d \in enduserservice[s].divisions |-> division[d].user_count])

\* the total of the EndUserCost rows of a service
ServiceTotal(s, fieldname) ==
  Total([c \in {x \in DOMAIN cost \cap EndUserCostIds : cost[x].target = s}
           |-> cost[c][fieldname]])

\* n/d rounded to an integer, a tie going the way the rule says
RoundBy(rule, n, d) ==
  LET q == n \div d
      r == n % d
  IN IF 2 * r > d THEN q + 1
     ELSE IF 2 * r < d THEN q
     ELSE CASE rule = "even" -> (IF q % 2 = 1 THEN q + 1 ELSE q)
            [] rule = "up" -> q + 1
            [] rule = "down" -> q

\* the integers nearest to n/d: two of them when n/d is a tie
Nearest(n, d) ==
  {q \in {n \div d, n \div d + 1} : 2 * (q * d - n) <= d /\ 2 * (n - q * d) <= d}

\* the sums of one nearest share per service
RECURSIVE ShareSums(_, _, _)
ShareSums(d, services, fieldname) ==
  IF services = {} THEN {0}
  ELSE LET s == CHOOSE x \in services : TRUE
       IN {a + b : a \in Nearest(division[d].user_count * ServiceTotal(s, fieldname),
                                 Users(s)),
                   b \in ShareSums(d, services \ {s}, fieldname)}

DivisionRead ==
  ret.sender = "Division" /\ ret.fn \in {"cost", "cost_estimate"}

\* C6 as stated: Division.cost() is the sum over the linked services of
\* user_count / total_user_count() * service.cost() rounded to 2 decimal
\* places, under one rounding rule.
C6_RoundedShares ==
  \E rule \in {"even", "up", "down"} :
    \A d \in DOMAIN division, fieldname \in {"cost", "cost_estimate"} :
      (\A s \in ServicesOf(d) : Users(s) > 0)
        => Division_enduser(DB, d, fieldname) =
             Ok(Total([s \in ServicesOf(d) |->
                         RoundBy(rule, division[d].user_count * ServiceTotal(s, fieldname),
                                 Users(s))]))

\* C6 as amended: Division.cost() is the sum over the linked services of
\* user_count / total_user_count() * service.cost() rounded to a nearest
\* cent (either neighbour when the share lies half-way between two cents),
\* and 0 for a Division linked to no service; cost_estimate() likewise.
C6_NearestShares ==
  DivisionRead /\ (\A s \in ServicesOf(ret.pk) : Users(s) > 0)
    => /\ ret.result.ok
       /\ ret.result.value \in ShareSums(ret.pk, ServicesOf(ret.pk), ret.fn)
       /\ ServicesOf(ret.pk) = {} => ret.result.value = 0

\* cost() was read of a Division linked to both services, with a share
\* that is no whole number of cents
C6_Witness ==
  /\ DivisionRead
  /\ ServicesOf(ret.pk) = DOMAIN enduserservice
  /\ \A s \in ServicesOf(ret.pk) : Users(s) > 0
  /\ \E s \in ServicesOf(ret.pk) :
       (division[ret.pk].user_count * ServiceTotal(s, ret.fn)) % Users(s) # 0
  /\ ret.result.value > 0

\* C7: Division.cost() and cost_estimate() of a Division linked to a
\* service whose total_user_count() is 0 raise; they return no number.
C7_ZeroUsersRaises ==
  DivisionRead /\ (\E s \in ServicesOf(ret.pk) : Users(s) = 0)
    => ~ret.result.ok

\* cost() was read of a Division linked to a service without users and to
\* a service with users and a cost
C7_Witness ==
  /\ DivisionRead
  /\ \E s \in ServicesOf(ret.pk) : Users(s) = 0
  /\ \E s \in ServicesOf(ret.pk) : Users(s) > 0 /\ ServiceTotal(s, ret.fn) > 0
  /\ ~ret.result.ok

\* C8: a raw load runs no hook: a loaded Cost row holds the cost and
\* cost_estimate it carried, a loaded Bill changes no Cost row, and a
\* loaded SystemDependency changes no Platform.
C8_RawLoadsSkipHooks ==
  [][/\ last'.op = "save" /\ last'.raw /\ last'.sender \in CostSenders
          => \A b \in BillIds, p \in Percentages, f \in FixtureFigures :
               SaveCost(last'.pk, CostFixture(b, p, CostTarget(last'.pk), f), TRUE)
                 => cost' = Put(cost, last'.pk, CostFixture(b, p, CostTarget(last'.pk), f))
     /\ last'.op = "save" /\ last'.raw /\ last'.sender = "Bill"
          => cost' = cost
     /\ last'.op = "save" /\ last'.raw /\ last'.sender = "SystemDependency"
          => platform' = platform]_vars

\* a Bill was loaded over a Cost row that a save of the Bill would change,
\* and a loaded SystemDependency is not counted
C8_Witness ==
  /\ last.op = "save" /\ last.raw /\ last.sender = "Bill"
  /\ \E c \in CostsOf(last.pk) :
       bill[last.pk].active /\ ~DerivedFrom(last.pk, c, "cost")
  /\ \E p \in DOMAIN platform :
       platform[p].system_count < Cardinality(DependenciesOn(p))

\* a row of model sender with key pk is referenced by a protecting key
Referenced(sender, pk) ==
  \/ sender = "Bill" /\ \E c \in DOMAIN cost : cost[c].bill = pk
  \/ sender = "Contract" /\ \E b \in DOMAIN bill : bill[b].contract = pk
  \/ sender = "FinancialYear" /\ \E b \in DOMAIN bill : bill[b].year = pk
  \/ sender = "ServicePool" /\ \E c \in DOMAIN cost : cost[c].service_pool = pk
  \/ sender = "Platform" /\ \E c \in DOMAIN cost :
                              c \in ITPlatformCostIds /\ cost[c].target = pk
  \/ sender = "Platform" /\ \E d \in DOMAIN systemdependency :
                              systemdependency[d].platform = pk
  \/ sender = "ITSystem" /\ \E d \in DOMAIN systemdependency :
                              systemdependency[d].system = pk

Class(sum) ==
  CASE sum = 0 -> "0"
    [] sum > 0 /\ sum < 10000 -> "lt_100"
    [] sum = 10000 -> "100"
    [] sum > 10000 -> "gt_100"
    [] OTHER -> "none"

PercentageTotal(b) == Total([c \in CostsOf(b) |-> cost[c].percentage])

\* C10: allocated() is the sum of the percentages of the Bill's Cost rows,
\* 0 without any; the allocation filter selects a Bill under a class
\* exactly when that sum is in the class, so every Bill is in one class.
C10_AllocationClasses ==
  /\ \A b \in DOMAIN bill : Class(PercentageTotal(b)) \in Lookups
  /\ \A b \in DOMAIN bill, value \in Lookups :
       b \in AllocatedListFilter_queryset(DB, value)
         <=> value = Class(PercentageTotal(b))
  /\ ret.fn = "allocated" => ret.result = Ok(PercentageTotal(ret.pk))
  /\ ret.fn = "queryset"
       => ret.result = Ok({b \in DOMAIN bill : Class(PercentageTotal(b)) = ret.pk})

\* C11: every persisted Cost row has a percentage from 0 to 100, and a
\* write of a percentage outside that range is rejected.
C11_PercentageInRange ==
  /\ \A c \in DOMAIN cost : PercentageValid(cost[c].percentage)
  /\ last.op = "save" /\ last.sender \in CostSenders /\ last.error = "none"
       => PercentageValid(cost[last.pk].percentage)

\* C12: a Bill saved again with no field changed, right after it was
\* saved, leaves cost and cost_estimate of every Cost row as they were
\* after the first save; so does a Cost row saved again with no field
\* changed, right after it was saved.
C12_Idempotent ==
  [][/\ last = Request("save", "Bill", last.pk, FALSE, "none") /\ last' = last
        /\ bill' = bill
          => cost' = cost
     /\ last = Request("save", CostSender(last.pk), last.pk, FALSE, "none")
        /\ last.pk \in CostIds /\ last' = last
        /\ last.pk \in DOMAIN cost' /\ last.pk \in DOMAIN cost
        /\ cost'[last.pk].percentage = cost[last.pk].percentage
        /\ cost'[last.pk].bill = cost[last.pk].bill
        /\ cost'[last.pk].target = cost[last.pk].target
          => cost' = cost]_vars

\* a Bill was saved, with a Cost row whose two products were rounded: a
\* second save of the same Bill, or of that row, ends in this very state
C12_Witness ==
  /\ Saved({"Bill"}, FALSE)
  /\ bill[last.pk].active
  /\ \E c \in CostsOf(last.pk) :
       /\ (bill[last.pk].cost * cost[c].percentage) % MicroPerCent # 0
       /\ (bill[last.pk].cost_estimate * cost[c].percentage) % MicroPerCent # 0
       /\ DerivedFrom(last.pk, c, "cost")
       /\ DerivedFrom(last.pk, c, "cost_estimate")
       /\ cost[c].cost + cost[c].cost_estimate > 0

\* C13: after any sequence of saves and deletes of SystemDependency rows,
\* the system_count of every Platform is the number of SystemDependency
\* rows that reference it.
C13_CountsMatch ==
  \A p \in DOMAIN platform :
    platform[p].system_count = Cardinality(DependenciesOn(p))

\* C14: a save whose cascade fails leaves the store either as it was
\* before the save or as the complete save would have left it.
C14_AtomicCascade ==
  \A t \in Procs :
    txn[t].pc = "failed"
      => \/ InState(txn[t].before)
         \/ InState(save(txn[t].before, txn[t].sender, txn[t].pk,
                         txn[t].instance, FALSE))

\* the number of writes of row pk of model sender in a log of writes
Count(writes, sender, pk) ==
  Cardinality({i \in 1..Len(writes) :
                 writes[i].sender = sender /\ writes[i].pk = pk})

\* C19: a save writes its own row first, at depth 1, and every other write
\* it causes is at depth 2 and is no Bill and no SystemDependency; a Bill
\* save that has returned has re-saved each Cost row of the Bill exactly
\* once and nothing else, a Cost save has written nothing else, and a
\* SystemDependency save has written its Platform once and nothing else.
C19_BoundedChain ==
  \A t \in Procs :
    LET w == txn[t].writes
        b == txn[t].pk
    IN /\ \A i \in 1..Len(w) :
            /\ w[i].depth = IF i = 1 THEN 1 ELSE 2
            /\ i = 1 => w[i].sender = txn[t].sender /\ w[i].pk = txn[t].pk
            /\ i > 1 => w[i].sender \notin {"Bill", "SystemDependency"}
       /\ txn[t].pc = "done" /\ txn[t].sender = "Bill"
            => /\ Len(w) = 1 + Cardinality(CostsOf(b))
               /\ \A c \in CostsOf(b) : Count(w, CostSender(c), c) = 1
       /\ txn[t].pc = "done" /\ txn[t].sender \in CostSenders
            => Len(w) = 1
       /\ txn[t].pc = "done" /\ txn[t].sender = "SystemDependency"
            => /\ Len(w) = 2
               /\ w[2].sender = "Platform" /\ w[2].pk = txn[t].instance.platform

\* the save of a Bill with two Cost rows has returned, while another Bill
\* has a Cost row too, after a SystemDependency was saved
C19_Witness ==
  /\ txn["t1"].pc = "done"
  /\ txn["t1"].sender = "Bill"
  /\ Len(txn["t1"].writes) = 3
  /\ \E c \in DOMAIN cost : cost[c].bill # txn["t1"].pk
  /\ systemdependency # <<>>

\* C15: once a save of Bill b and a concurrent save of a Cost row c of b
\* have both completed, the stored cost and cost_estimate of c are the
\* derivation from the stored Bill and the stored percentage of c, and the
\* percentage the Cost save wrote is the stored one.
C15_RaceDerived ==
  \A t, u \in Procs :
    /\ txn[t].pc = "done" /\ txn[t].sender = "Bill"
    /\ txn[u].pc = "done" /\ txn[u].sender \in CostSenders
    /\ txn[u].instance.bill = txn[t].pk
    => /\ DerivedFrom(txn[t].pk, txn[u].pk, "cost")
       /\ DerivedFrom(txn[t].pk, txn[u].pk, "cost_estimate")
       /\ cost[txn[u].pk].percentage = txn[u].instance.percentage

\* C16: once two concurrent saves of SystemDependency rows that reference
\* the same Platform have both completed, the system_count of the Platform
\* is the number of SystemDependency rows that reference it.
C16_RaceCounted ==
  \A t, u \in Procs :
    /\ t # u
    /\ txn[t].pc = "done" /\ txn[t].sender = "SystemDependency"
    /\ txn[u].pc = "done" /\ txn[u].sender = "SystemDependency"
    /\ txn[t].instance.platform = txn[u].instance.platform
    => platform[txn[t].instance.platform].system_count
         = Cardinality(DependenciesOn(txn[t].instance.platform))

\* the stored rows an aggregate of entity pk of model sender is about
RowsOf(sender, pk) ==
  CASE sender = "EndUserService" ->
         {c \in DOMAIN cost : c \in EndUserCostIds /\ cost[c].target = pk}
    [] sender = "Platform" ->
         {c \in DOMAIN cost : c \in ITPlatformCostIds /\ cost[c].target = pk}
    [] sender = "FinancialYear" -> {b \in DOMAIN bill : bill[b].year = pk}
    [] sender = "Contract" ->
         {b \in DOMAIN bill : bill[b].contract = pk /\ bill[b].active}

\* C17: cost() and cost_estimate() of an EndUserService, a Platform, a
\* FinancialYear or a Contract return the sum of that field over the rows
\* stored now: the EndUserCost rows of the service, the ITPlatformCost rows
\* of the platform, all Bills of the year, the active Bills of the
\* contract; 0 where there is no such row.
C17_Recomputed ==
  ret.fn \in {"cost", "cost_estimate"}
    /\ ret.sender \in {"EndUserService", "Platform", "FinancialYear", "Contract"}
    => LET rows == RowsOf(ret.sender, ret.pk)
           table == IF ret.sender \in {"EndUserService", "Platform"}
                    THEN cost ELSE bill
       IN /\ ret.result = Ok(Total([x \in rows |-> table[x][ret.fn]]))
          /\ rows = {} => ret.result = Ok(0)

\* cost() of a Contract is read after writes: it has an active Bill and an
\* inactive one, both with a cost, and the Cost rows have a cost too
C17_Witness ==
  /\ ret.fn = "cost"
  /\ ret.sender = "Contract"
  /\ ret.result.ok /\ ret.result.value > 0
  /\ \E b \in DOMAIN bill :
       bill[b].contract = ret.pk /\ ~bill[b].active /\ bill[b].cost > 0
  /\ \E c \in DOMAIN cost : cost[c].cost > 0

\* the percentage, bill and target of Cost row c are in the step what they
\* were before it
KeepsInputs(c) ==
  /\ c \in DOMAIN cost'
  /\ cost'[c].percentage = cost[c].percentage
  /\ cost'[c].bill = cost[c].bill
  /\ cost'[c].target = cost[c].target

\* C18: a save of a Cost row through the admin leaves every Bill as it was
\* and stores the percentage, bill and target that were submitted, and
\* changes no other Cost row; a save of Bill B stores the submitted Bill,
\* leaves every other Bill as it was, leaves every Cost row whose bill is
\* not B as it was, and leaves the percentage, bill and target of the Cost
\* rows of B as they were; a save of a SystemDependency leaves every
\* Platform it does not reference as it was and the name of the one it
\* references as it was.
C18_Frame ==
  [][/\ last'.op = "save" /\ last'.sender \in CostSenders /\ ~last'.raw
          => \A b \in BillIds, p \in FramePercentages :
               LET pk == last'.pk
               IN SaveCost(pk, CostForm(pk, b, p, CostTarget(pk)), FALSE)
                    => /\ bill' = bill
                       /\ cost'[pk].percentage = p
                       /\ cost'[pk].bill = b
                       /\ cost'[pk].target = CostTarget(pk)
                       /\ \A c \in DOMAIN cost \ {pk} :
                            c \in DOMAIN cost' /\ cost'[c] = cost[c]
     /\ last'.op = "save" /\ last'.sender = "Bill"
          => \A data \in FrameBills :
               LET pk == last'.pk
               IN SaveBill(pk, data, FALSE)
                    => /\ bill'[pk] = data
                       /\ \A b \in DOMAIN bill \ {pk} :
                            b \in DOMAIN bill' /\ bill'[b] = bill[b]
                       /\ \A c \in DOMAIN cost :
                            /\ KeepsInputs(c)
                            /\ cost[c].bill # pk => cost'[c] = cost[c]
     /\ last'.op = "save" /\ last'.sender = "SystemDependency"
          => /\ DOMAIN platform' = DOMAIN platform
             /\ \A p \in DOMAIN platform :
                  /\ platform'[p].name = platform[p].name
                  /\ (last'.error # "none"
                        \/ p # systemdependency'[last'.pk].platform)
                       => platform'[p] = platform[p]
             /\ bill' = bill /\ cost' = cost]_vars

\* Bill b1 has just been saved through the admin and a Cost row of it was
\* rewritten, while a Cost row of Bill b2 holds loaded figures that a
\* re-save would change, and a SystemDependency is counted on a Platform
C18_Witness ==
  /\ Saved({"Bill"}, FALSE)
  /\ last.pk = "b1"
  /\ \E c \in CostsOf("b1") : cost[c].cost > 0
  /\ \E c \in CostsOf("b2") :
       ~(DerivedFrom("b2", c, "cost") /\ DerivedFrom("b2", c, "cost_estimate"))
  /\ \E p \in DOMAIN platform : platform[p].system_count > 0

=============================================================================
